---------------------------- MODULE Spec2Model ----------------------------
(***************************************************************************)
(* Slot reservation / commitment service of src/main.py.                   *)
(*                                                                         *)
(* State: the process-wide room map rooms_db, the image and card files in  *)
(* the working directory and the wall clock.  Every handler is an operator *)
(* from the state and the request to the response and the state            *)
(* afterwards.  Spec serves one request at a time (each request is one     *)
(* action that applies its handler).  SpecConc runs reserve_slot and       *)
(* join_room as worker threads that interleave statement by statement, as  *)
(* the thread pool that serves the synchronous handlers does.  SpecCard    *)
(* composes cards for rooms of every layout, SpecRooms serves two rooms    *)
(* side by side.                                                           *)
(***************************************************************************)
EXTENDS Integers, Sequences, FiniteSets, TLC

\* ------------------------------------------------------------------ bounds
\* The clock runs from ClockStart to MaxNow (minutes).
ClockStart == 9
MaxNow == 10
\* SpecCard: templates of up to MaxSlots characters, up to MaxColumns columns.
MaxSlots == 14
MaxColumns == 6
\* ------------------------------------------------------------------ inputs
\* Python's None, for the Optional fields and for "no value".
None == "None"
\* Room ids uuid4 can produce, and an id no room ever has.
RoomIds == {"r1"}
RequestIds == RoomIds \cup {"zz"}
\* user_name is any string, the empty one included.
Users == {"", "ann", "bob"}
Messages == {"", "hi"}
\* Templates: lower and upper case letters, a blank inside and a blank first.
Texts == {<<"a", " ", "B">>, <<" ", "b">>}
Columns == {2}
Positions == {0, 1, 2}
\* image_data: the data URL as the pieces split(",") and b64decode see.
\*   "png"  - base64 of a PNG image;  "x" - a payload b64decode rejects
ImageData == {<<>>, <<"hdr", ",", "png">>, <<"hdr", ",", "x">>}
\* What the file system does to open(file_name, "wb") and f.write(data).
IoOutcomes == {"ok", "open_fails", "write_fails"}
\* SpecCard: templates of every length with a blank as sixth character, and
\* every positive number of columns (make_card divides by columns).
CardTexts ==
  {[i \in 1 .. n |-> IF i = 6 THEN " " ELSE "a"] : n \in 0 .. MaxSlots}
CardColumns == 1 .. MaxColumns
\* SpecRooms: two rooms side by side, and the requests sent to them.
TwoRoomIds == {"r1", "r2"}
TwoRoomRequestIds == TwoRoomIds \cup {"zz"}
\* (a blank first, and a letter whose upper case is two characters)
TwoRoomTexts == {<<" ", "b">>, <<"ß">>}
TwoRoomUsers == {"ann", "bob"}
TwoRoomMessages == {"hi"}
TwoRoomImageData == {<<"hdr", ",", "png">>}
\* Worker threads of the pool that serve requests at the same time, and the
\* requests they are given.
Threads == {"t1", "t2"}
ThreadUsers == {"ann", "bob"}
ThreadMessages == {"hi"}
ThreadImageData == {<<"hdr", ",", "png">>}
ThreadIoOutcomes == {"ok"}

\* ------------------------------------------------------------------ state
VARIABLES
  rooms_db,   \* room_id -> RoomData, for the rooms created so far
  files,      \* (room_id, position) -> bytes of img_{room_id}_{position}.png
  cards,      \* room_id -> content of result_{room_id}.jpg
  now,        \* the wall clock, in minutes
  granted,    \* history: room_id -> user -> the assigned_char of that user's
              \* last SUCCESS reserve since the user's last SUCCESS join
  threads     \* SpecConc: thread -> the request it runs and where it is

vars == <<rooms_db, files, cards, now, granted, threads>>

\* ------------------------------------------------------------------ helpers
\* str.upper() of one character: the characters it becomes.
upper(c) ==
  IF c = "a" THEN <<"A">> ELSE IF c = "b" THEN <<"B">>
  ELSE IF c = "ß" THEN <<"S", "S">> ELSE <<c>>

\* request.text.upper()
RECURSIVE str_upper(_)
str_upper(text) ==
  IF text = <<>> THEN <<>> ELSE upper(Head(text)) \o str_upper(Tail(text))

\* datetime.now().strftime(..."%H:%M"): zero-padded two-digit decimal.
strftime(t) == <<t \div 10, t % 10>>

\* Python's str >= str: lexicographic on the characters.
RECURSIVE StrGE(_, _)
StrGE(a, b) ==
  IF b = <<>> THEN TRUE
  ELSE IF a = <<>> THEN FALSE
  ELSE IF a[1] # b[1] THEN a[1] > b[1]
  ELSE StrGE(Tail(a), Tail(b))

\* Slot(position=i, char=char, is_filled=is_blocked)
Slot(position, char, is_filled) ==
  [position |-> position, char |-> char, user |-> None, message |-> None,
   is_filled |-> is_filled, reserved_by |-> None]

\* Mutant of TimeOver: now > room.open_time.
TimeOverStrict(room, t) ==
  strftime(t) # room.open_time /\ StrGE(strftime(t), room.open_time)

\* now >= room.open_time, the gate of reserve_slot and join_room.
TimeOver(room, t) == StrGE(strftime(t), room.open_time)

\* Mutant of ScanHeld: looks at slot.user instead of slot.reserved_by.
RECURSIVE ScanHeldByUser(_, _, _)
ScanHeldByUser(slots, user_name, i) ==
  IF i > Len(slots) THEN 0
  ELSE IF slots[i].user = user_name /\ ~slots[i].is_filled THEN i
  ELSE ScanHeldByUser(slots, user_name, i + 1)

\* Mutant of ScanHeld: "not" is missing before slot.is_filled.
RECURSIVE ScanHeldFilled(_, _, _)
ScanHeldFilled(slots, user_name, i) ==
  IF i > Len(slots) THEN 0
  ELSE IF slots[i].reserved_by = user_name /\ slots[i].is_filled THEN i
  ELSE ScanHeldFilled(slots, user_name, i + 1)

\* for slot in room.slots: if slot.reserved_by == user_name and not slot.is_filled
RECURSIVE ScanHeld(_, _, _)
ScanHeld(slots, user_name, i) ==
  IF i > Len(slots) THEN 0
  ELSE IF slots[i].reserved_by = user_name /\ ~slots[i].is_filled THEN i
  ELSE ScanHeld(slots, user_name, i + 1)

\* Mutant of ScanFree: for slot in reversed(room.slots).
RECURSIVE ScanFreeDown(_, _)
ScanFreeDown(slots, i) ==
  IF i < 1 THEN 0
  ELSE IF ~slots[i].is_filled /\ slots[i].reserved_by = None THEN i
  ELSE ScanFreeDown(slots, i - 1)

ScanFreeReversed(slots, i) == ScanFreeDown(slots, Len(slots))

\* Mutant of ScanFree: if slot.reserved_by is None (is_filled not tested).
RECURSIVE ScanFreeUnreserved(_, _)
ScanFreeUnreserved(slots, i) ==
  IF i > Len(slots) THEN 0
  ELSE IF slots[i].reserved_by = None THEN i
  ELSE ScanFreeUnreserved(slots, i + 1)

\* Mutant of ScanFree: if not slot.is_filled (reserved_by not tested).
RECURSIVE ScanFreeUnfilled(_, _)
ScanFreeUnfilled(slots, i) ==
  IF i > Len(slots) THEN 0
  ELSE IF ~slots[i].is_filled THEN i
  ELSE ScanFreeUnfilled(slots, i + 1)

\* for slot in room.slots: if not slot.is_filled and slot.reserved_by is None
RECURSIVE ScanFree(_, _)
ScanFree(slots, i) ==
  IF i > Len(slots) THEN 0
  ELSE IF ~slots[i].is_filled /\ slots[i].reserved_by = None THEN i
  ELSE ScanFree(slots, i + 1)

\* d with key k bound to v (dict assignment, file creation).
Put(d, k, v) == [x \in DOMAIN d \cup {k} |-> IF x = k THEN v ELSE d[x]]

\* The open_time strings a host sends: minute-resolution timestamps in the
\* format the server compares against.
OpenTimes == {strftime(t) : t \in ClockStart .. MaxNow + 1}

\* ------------------------------------------------------------------ create
\* Mutant of NewSlots: enumerate(request.text.upper(), 1).
NewSlotsFromOne(text) ==
  LET chars == str_upper(text)
  IN [i \in 1 .. Len(chars) |-> Slot(i, chars[i], chars[i] = " ")]

\* new_slots of create_room: one Slot per character of text.upper().
NewSlots(text) ==
  LET chars == str_upper(text)
  IN [i \in 1 .. Len(chars) |-> Slot(i - 1, chars[i], chars[i] = " ")]

RoomData(slots, columns, open_time) ==
  [slots |-> slots, columns |-> columns, open_time |-> open_time]

\* POST /create: rooms_db afterwards.
create_room(db, room_id, text, columns, open_time) ==
  Put(db, room_id, RoomData(NewSlots(text), columns, open_time))

\* ------------------------------------------------------------------ status
\* Mutant of check_status: is_open only after the minute of open_time.
check_status_strict(db, room_id, t) ==
  IF room_id \notin DOMAIN db
  THEN [error |-> TRUE, is_open |-> None]
  ELSE [error |-> FALSE,
        is_open |-> /\ strftime(t) # db[room_id].open_time
                    /\ StrGE(strftime(t), db[room_id].open_time)]

\* GET /status/{room_id}: the response.
check_status(db, room_id, t) ==
  IF room_id \notin DOMAIN db
  THEN [error |-> TRUE, is_open |-> None]
  ELSE [error |-> FALSE, is_open |-> StrGE(strftime(t), db[room_id].open_time)]

\* GET /img/{room_id}/{position}: the response.
get_image(fs, room_id, position) ==
  IF <<room_id, position>> \in DOMAIN fs THEN "FILE" ELSE "error"

\* GET /result_card/{room_id}: the response.
get_result_card(cs, room_id) ==
  IF room_id \in DOMAIN cs THEN "FILE" ELSE "error"

\* ------------------------------------------------------------------ reserve
\* Mutant of reserve_slot: a user with no hold and no free slot gets back
\* the first slot the user committed, reopened.
reserve_slot_reopens(db, room_id, user_name, t) ==
  IF room_id \notin DOMAIN db
  THEN [status |-> "ERROR", assigned_char |-> None, rooms_db |-> db]
  ELSE IF TimeOver(db[room_id], t)
  THEN [status |-> "TIME_OVER", assigned_char |-> None, rooms_db |-> db]
  ELSE LET slots == db[room_id].slots
           h == ScanHeld(slots, user_name, 1)
           f == ScanFree(slots, 1)
           mine == {i \in 1 .. Len(slots) : slots[i].user = user_name}
       IN IF h # 0
          THEN [status |-> "SUCCESS", assigned_char |-> slots[h].char,
                rooms_db |-> db]
          ELSE IF f # 0
          THEN [status |-> "SUCCESS", assigned_char |-> slots[f].char,
                rooms_db |-> [db EXCEPT ![room_id].slots[f].reserved_by = user_name]]
          ELSE IF mine # {}
          THEN LET i == CHOOSE k \in mine : \A j \in mine : k <= j IN
               [status |-> "SUCCESS", assigned_char |-> slots[i].char,
                rooms_db |-> [db EXCEPT ![room_id].slots[i].reserved_by = user_name,
                                        ![room_id].slots[i].is_filled = FALSE]]
          ELSE [status |-> "FULL", assigned_char |-> None, rooms_db |-> db]

\* POST /reserve/{room_id}: the response and rooms_db afterwards.
reserve_slot(db, room_id, user_name, t) ==
  IF room_id \notin DOMAIN db
  THEN [status |-> "ERROR", assigned_char |-> None, rooms_db |-> db]
  ELSE IF TimeOver(db[room_id], t)
  THEN [status |-> "TIME_OVER", assigned_char |-> None, rooms_db |-> db]
  ELSE LET slots == db[room_id].slots
           h == ScanHeld(slots, user_name, 1)
           f == ScanFree(slots, 1)
       IN IF h # 0
          THEN [status |-> "SUCCESS", assigned_char |-> slots[h].char,
                rooms_db |-> db]
          ELSE IF f # 0
          THEN [status |-> "SUCCESS", assigned_char |-> slots[f].char,
                rooms_db |-> [db EXCEPT ![room_id].slots[f].reserved_by = user_name]]
          ELSE [status |-> "FULL", assigned_char |-> None, rooms_db |-> db]

\* ------------------------------------------------------------------ join
\* Mutant of target_slot: the fallback takes the last free slot.
target_slot_last(slots, user_name) ==
  LET h == ScanHeld(slots, user_name, 1)
  IN IF h # 0 THEN h ELSE ScanFreeDown(slots, Len(slots))

\* Mutant of target_slot: the fallback takes the first unfilled slot, held
\* by somebody or not.
target_slot_unfilled(slots, user_name) ==
  LET h == ScanHeld(slots, user_name, 1)
  IN IF h # 0 THEN h ELSE ScanFreeUnfilled(slots, 1)

\* target_slot of join_room (index into slots, 0 when None).
target_slot(slots, user_name) ==
  LET h == ScanHeld(slots, user_name, 1)
  IN IF h # 0 THEN h ELSE ScanFree(slots, 1)

\* Mutant of Commit: target_slot.is_filled = True is left out.
CommitUnfilled(slot, user_name, message) ==
  [slot EXCEPT !.user = user_name, !.message = message]

\* The three assignments to target_slot.
Commit(slot, user_name, message) ==
  [slot EXCEPT !.user = user_name, !.message = message, !.is_filled = TRUE]

\* request.image_data.split(",", 1): index of the first comma, 0 if none
\* (then the unpacking into header, encoded raises ValueError).
RECURSIVE FirstComma(_, _)
FirstComma(image_data, i) ==
  IF i > Len(image_data) THEN 0
  ELSE IF image_data[i] = "," THEN i
  ELSE FirstComma(image_data, i + 1)

\* base64.b64decode(encoded): the bytes, or None when it raises.
b64decode(encoded) ==
  IF encoded = <<"png">> THEN "PNG" ELSE None

\* The try block of join_room: the files afterwards.  An exception raised by
\* split, b64decode or open leaves the files alone; open creates (truncates)
\* the file, so an exception raised by the write leaves it empty.
save_image(fs, key, image_data, io) ==
  LET c == FirstComma(image_data, 1)
      data == b64decode(SubSeq(image_data, c + 1, Len(image_data)))
  IN IF c = 0 \/ data = None \/ io = "open_fails" THEN fs
     ELSE IF io = "write_fails" THEN Put(fs, key, "")
     ELSE Put(fs, key, data)

\* Mutant of join_room: the rooms share their Slot objects, so the slot is
\* committed in every room that has it.
join_room_shared_slots(db, fs, room_id, user_name, message, image_data, io, t) ==
  IF room_id \notin DOMAIN db
  THEN [status |-> "ERROR", rooms_db |-> db, files |-> fs]
  ELSE IF TimeOver(db[room_id], t)
  THEN [status |-> "TIME_OVER", rooms_db |-> db, files |-> fs]
  ELSE LET slots == db[room_id].slots
           i == target_slot(slots, user_name)
       IN IF i # 0
          THEN [status |-> "SUCCESS",
                rooms_db |-> [q \in DOMAIN db |->
                               IF i <= Len(db[q].slots)
                               THEN [db[q] EXCEPT !.slots[i] =
                                       Commit(db[q].slots[i], user_name, message)]
                               ELSE db[q]],
                files |-> save_image(fs, <<room_id, slots[i].position>>,
                                     image_data, io)]
          ELSE [status |-> "FULL", rooms_db |-> db, files |-> fs]

\* POST /join/{room_id}: the response, rooms_db and the files afterwards.
join_room(db, fs, room_id, user_name, message, image_data, io, t) ==
  IF room_id \notin DOMAIN db
  THEN [status |-> "ERROR", rooms_db |-> db, files |-> fs]
  ELSE IF TimeOver(db[room_id], t)
  THEN [status |-> "TIME_OVER", rooms_db |-> db, files |-> fs]
  ELSE LET slots == db[room_id].slots
           i == target_slot(slots, user_name)
       IN IF i # 0
          THEN [status |-> "SUCCESS",
                rooms_db |-> [db EXCEPT ![room_id].slots[i] =
                                          Commit(slots[i], user_name, message)],
                files |-> save_image(fs, <<room_id, slots[i].position>>,
                                     image_data, io)]
          ELSE [status |-> "FULL", rooms_db |-> db, files |-> fs]

\* ------------------------------------------------------------------ card
slot_size == 120
margin == 40

\* Image.open(img_path) succeeds on the bytes of an image only.
Decodes(bytes) == bytes = "PNG"

\* The positions make_card pastes a photo at.
Pasted(fs, room_id, room) ==
  {room.slots[j].position : j \in
     {i \in 1 .. Len(room.slots) :
        /\ room.slots[i].char # " "
        /\ room.slots[i].is_filled
        /\ room.slots[i].user \notin {None, ""}
        /\ <<room_id, room.slots[i].position>> \in DOMAIN fs
        /\ Decodes(fs[<<room_id, room.slots[i].position>>])}}

\* Mutant of Cell: col_idx and row_idx exchanged.
CellTransposed(room, position) ==
  LET col_idx == position \div room.columns
      row_idx == position % room.columns
  IN [x |-> margin + (col_idx * slot_size), y |-> margin + (row_idx * slot_size)]

\* The corner (x, y) make_card computes for the slot at a position.
Cell(room, position) ==
  LET col_idx == position % room.columns
      row_idx == position \div room.columns
  IN [x |-> margin + (col_idx * slot_size), y |-> margin + (row_idx * slot_size)]

\* Mutant of Canvas: rows = total_slots // cols.
CanvasFloorRows(fs, room_id, room) ==
  [width |-> (room.columns * slot_size) + (margin * 2),
   height |-> ((Len(room.slots) \div room.columns) * slot_size) + (margin * 2),
   pasted |-> Pasted(fs, room_id, room),
   at |-> [p \in Pasted(fs, room_id, room) |-> Cell(room, p)]]

\* The canvas make_card saves: its size, the positions whose photo was
\* pasted and the corner each was pasted at.
Canvas(fs, room_id, room) ==
  LET cols == room.columns
      total_slots == Len(room.slots)
      rows == (total_slots \div cols) + (IF total_slots % cols # 0 THEN 1 ELSE 0)
  IN [width |-> (cols * slot_size) + (margin * 2),
      height |-> (rows * slot_size) + (margin * 2),
      pasted |-> Pasted(fs, room_id, room),
      at |-> [p \in Pasted(fs, room_id, room) |-> Cell(room, p)]]

\* Mutant of make_card: out_file = "result.jpg" for every room.
make_card_one_file(db, fs, cs, room_id) ==
  IF room_id \notin DOMAIN db
  THEN [status |-> "error", cards |-> cs]
  ELSE [status |-> "OK", cards |-> Put(cs, "result", Canvas(fs, room_id, db[room_id]))]

\* POST /make-card/{room_id}: the response and the card files afterwards.
make_card(db, fs, cs, room_id) ==
  IF room_id \notin DOMAIN db
  THEN [status |-> "error", cards |-> cs]
  ELSE [status |-> "OK", cards |-> Put(cs, room_id, Canvas(fs, room_id, db[room_id]))]

\* ------------------------------------------------------------------ requests
\* One request served from start to end.  room_id of a new room is the first
\* 8 characters of a uuid4, taken to be fresh.
PostCreate ==
  \E room_id \in RoomIds \ DOMAIN rooms_db, text \in Texts,
     columns \in Columns, open_time \in OpenTimes :
    /\ rooms_db' = create_room(rooms_db, room_id, text, columns, open_time)
    /\ granted' = Put(granted, room_id, [u \in Users |-> None])
    /\ UNCHANGED <<files, cards, now, threads>>

GetStatus ==
  \E room_id \in RequestIds :
    /\ check_status(rooms_db, room_id, now).error \in BOOLEAN
    /\ UNCHANGED vars

GetImg ==
  \E room_id \in RequestIds, position \in Positions :
    /\ get_image(files, room_id, position) \in {"FILE", "error"}
    /\ UNCHANGED vars

GetResultCard ==
  \E room_id \in RequestIds :
    /\ get_result_card(cards, room_id) \in {"FILE", "error"}
    /\ UNCHANGED vars

PostReserve ==
  \E room_id \in RequestIds, user_name \in Users :
    LET r == reserve_slot(rooms_db, room_id, user_name, now) IN
    /\ rooms_db' = r.rooms_db
    /\ granted' = IF r.status = "SUCCESS"
                  THEN [granted EXCEPT ![room_id][user_name] = r.assigned_char]
                  ELSE granted
    /\ UNCHANGED <<files, cards, now, threads>>

PostJoin ==
  \E room_id \in RequestIds, user_name \in Users, message \in Messages,
     image_data \in ImageData, io \in IoOutcomes :
    LET r == join_room(rooms_db, files, room_id, user_name, message,
                       image_data, io, now) IN
    /\ rooms_db' = r.rooms_db
    /\ files' = r.files
    /\ granted' = IF r.status = "SUCCESS"
                  THEN [granted EXCEPT ![room_id][user_name] = None]
                  ELSE granted
    /\ UNCHANGED <<cards, now, threads>>

PostMakeCard ==
  \E room_id \in RequestIds :
    /\ cards' = make_card(rooms_db, files, cards, room_id).cards
    /\ UNCHANGED <<rooms_db, files, now, granted, threads>>

\* SpecCard: POST /create with a template and columns of the card layouts,
\* the window open.
PostCreateCard ==
  \E room_id \in RoomIds \ DOMAIN rooms_db, text \in CardTexts,
     columns \in CardColumns :
    /\ rooms_db' = create_room(rooms_db, room_id, text, columns,
                               strftime(MaxNow + 1))
    /\ granted' = Put(granted, room_id, [u \in Users |-> None])
    /\ UNCHANGED <<files, cards, now, threads>>

\* SpecCard: POST /join by one user with a photo that is saved.
PostJoinCard ==
  \E room_id \in RoomIds :
    LET r == join_room(rooms_db, files, room_id, "ann", "hi",
                       <<"hdr", ",", "png">>, "ok", now) IN
    /\ r.status = "SUCCESS"
    /\ rooms_db' = r.rooms_db
    /\ files' = r.files
    /\ UNCHANGED <<cards, now, granted, threads>>

\* SpecRooms: the requests of Spec that write rooms_db, for two rooms.
PostCreateRooms ==
  \E room_id \in TwoRoomIds \ DOMAIN rooms_db, text \in TwoRoomTexts,
     columns \in Columns :
    /\ rooms_db' = create_room(rooms_db, room_id, text, columns,
                               strftime(MaxNow + 1))
    /\ UNCHANGED <<files, cards, now, granted, threads>>

PostReserveRooms ==
  \E room_id \in TwoRoomRequestIds, user_name \in TwoRoomUsers :
    /\ rooms_db' = reserve_slot(rooms_db, room_id, user_name, now).rooms_db
    /\ UNCHANGED <<files, cards, now, granted, threads>>

PostJoinRooms ==
  \E room_id \in TwoRoomRequestIds, user_name \in TwoRoomUsers,
     message \in TwoRoomMessages, image_data \in TwoRoomImageData :
    LET r == join_room(rooms_db, files, room_id, user_name, message,
                       image_data, "ok", now) IN
    /\ rooms_db' = r.rooms_db
    /\ files' = r.files
    /\ UNCHANGED <<cards, now, granted, threads>>

PostMakeCardRooms ==
  \E room_id \in TwoRoomRequestIds :
    /\ cards' = make_card(rooms_db, files, cards, room_id).cards
    /\ UNCHANGED <<rooms_db, files, now, granted, threads>>

\* Wall-clock time passes between requests.
Tick ==
  /\ now < MaxNow
  /\ now' \in (now + 1) .. MaxNow
  /\ UNCHANGED <<rooms_db, files, cards, granted, threads>>

\* ------------------------------------------------------------------ threads
\* A worker thread: the request it serves (op, room_id, user_name), the
\* statement it is at (pc) and the slot its loop or target_slot is at (i).
Thread(pc, op, room_id, user_name, i) ==
  [pc |-> pc, op |-> op, room_id |-> room_id, user_name |-> user_name, i |-> i]

Idle == Thread("idle", None, None, None, 0)

At(t, pc) == threads[t].pc = pc
Goto(t, pc, i) ==
  threads' = [threads EXCEPT ![t].pc = pc, ![t].i = i]
Return(t) == threads' = [threads EXCEPT ![t] = Idle]

\* A request for reserve_slot or join_room arrives and a thread takes it.
Begin(t) ==
  /\ At(t, "idle")
  /\ \E op \in {"reserve", "join"}, room_id \in RequestIds,
        user_name \in ThreadUsers :
       threads' = [threads EXCEPT ![t] = Thread("gate", op, room_id, user_name, 0)]
  /\ UNCHANGED <<rooms_db, files, cards, now, granted>>

\* The room lookup and the time gate of reserve_slot and join_room.
Gate(t) ==
  /\ At(t, "gate")
  /\ IF threads[t].room_id \notin DOMAIN rooms_db
     THEN Return(t)
     ELSE IF TimeOver(rooms_db[threads[t].room_id], now)
     THEN Return(t)
     ELSE Goto(t, "held", 1)
  /\ UNCHANGED <<rooms_db, files, cards, now, granted>>

\* One iteration of the first loop: the slot the user holds.
LoopHeld(t) ==
  /\ At(t, "held")
  /\ LET slots == rooms_db[threads[t].room_id].slots
         i == threads[t].i
     IN IF i > Len(slots)
        THEN Goto(t, "free", 1)
        ELSE IF slots[i].reserved_by = threads[t].user_name /\ ~slots[i].is_filled
        THEN IF threads[t].op = "reserve" THEN Return(t) ELSE Goto(t, "user", i)
        ELSE Goto(t, "held", i + 1)
  /\ UNCHANGED <<rooms_db, files, cards, now, granted>>

\* One iteration of the second loop: the first free slot.
LoopFree(t) ==
  /\ At(t, "free")
  /\ LET slots == rooms_db[threads[t].room_id].slots
         i == threads[t].i
     IN IF i > Len(slots)
        THEN Return(t)
        ELSE IF ~slots[i].is_filled /\ slots[i].reserved_by = None
        THEN IF threads[t].op = "reserve"
             THEN Goto(t, "claim", i) ELSE Goto(t, "user", i)
        ELSE Goto(t, "free", i + 1)
  /\ UNCHANGED <<rooms_db, files, cards, now, granted>>

\* reserve_slot: slot.reserved_by = request.user_name, and the return.
Claim(t) ==
  /\ At(t, "claim")
  /\ rooms_db' = [rooms_db EXCEPT
                    ![threads[t].room_id].slots[threads[t].i].reserved_by =
                      threads[t].user_name]
  /\ Return(t)
  /\ UNCHANGED <<files, cards, now, granted>>

\* join_room: target_slot.user = request.user_name
SetUser(t) ==
  /\ At(t, "user")
  /\ rooms_db' = [rooms_db EXCEPT
                    ![threads[t].room_id].slots[threads[t].i].user =
                      threads[t].user_name]
  /\ Goto(t, "message", threads[t].i)
  /\ UNCHANGED <<files, cards, now, granted>>

\* join_room: target_slot.message = request.message
SetMessage(t) ==
  /\ At(t, "message")
  /\ \E message \in ThreadMessages :
       rooms_db' = [rooms_db EXCEPT
                      ![threads[t].room_id].slots[threads[t].i].message = message]
  /\ Goto(t, "filled", threads[t].i)
  /\ UNCHANGED <<files, cards, now, granted>>

\* join_room: target_slot.is_filled = True
SetFilled(t) ==
  /\ At(t, "filled")
  /\ rooms_db' = [rooms_db EXCEPT
                    ![threads[t].room_id].slots[threads[t].i].is_filled = TRUE]
  /\ Goto(t, "save", threads[t].i)
  /\ UNCHANGED <<files, cards, now, granted>>

\* join_room: the try block that saves the photo, and the return.
Save(t) ==
  /\ At(t, "save")
  /\ \E image_data \in ThreadImageData, io \in ThreadIoOutcomes :
       files' = save_image(files,
                           <<threads[t].room_id,
                             rooms_db[threads[t].room_id]
                               .slots[threads[t].i].position>>,
                           image_data, io)
  /\ Return(t)
  /\ UNCHANGED <<rooms_db, cards, now, granted>>

\* ------------------------------------------------------------------ spec
Empty == [x \in {} |-> None]

Init ==
  /\ rooms_db = Empty
  /\ files = Empty
  /\ cards = Empty
  /\ now = ClockStart
  /\ granted = Empty
  /\ threads = [t \in Threads |-> Idle]

Next ==
  \/ PostCreate
  \/ GetStatus
  \/ GetImg
  \/ GetResultCard
  \/ PostReserve
  \/ PostJoin
  \/ PostMakeCard
  \/ Tick

Spec == Init /\ [][Next]_vars

\* Requests served by the threads of the pool, interleaved.
NextConc ==
  \/ PostCreate
  \/ \E t \in Threads : Begin(t)
  \/ \E t \in Threads : Gate(t)
  \/ \E t \in Threads : LoopHeld(t)
  \/ \E t \in Threads : LoopFree(t)
  \/ \E t \in Threads : Claim(t)
  \/ \E t \in Threads : SetUser(t)
  \/ \E t \in Threads : SetMessage(t)
  \/ \E t \in Threads : SetFilled(t)
  \/ \E t \in Threads : Save(t)

SpecConc == Init /\ [][NextConc]_vars

\* Cards composed for rooms of every layout as photos come in.
NextCard ==
  \/ PostCreateCard
  \/ PostJoinCard
  \/ PostMakeCard

SpecCard == Init /\ [][NextCard]_vars

\* Requests served one at a time on two rooms.
NextRooms ==
  \/ PostCreateRooms
  \/ GetStatus
  \/ PostReserveRooms
  \/ PostJoinRooms
  \/ PostMakeCardRooms

SpecRooms == Init /\ [][NextRooms]_vars

\* ------------------------------------------------------------------ claims
\* The minute a timestamp string stands for (the inverse of strftime).
Minutes(str) == str[1] * 10 + str[2]

Rooms == DOMAIN rooms_db

\* The submission window of room r has closed: now >= closingThreshold.
Closed(r) == now >= Minutes(rooms_db[r].open_time)

Reserve(r, u) == reserve_slot(rooms_db, r, u, now)
Join(r, u, m, d, io) == join_room(rooms_db, files, r, u, m, d, io, now)

Free(slot) == ~slot.is_filled /\ slot.reserved_by = None
HeldBy(slot, u) == ~slot.is_filled /\ slot.reserved_by = u
Blank(slot) == slot.char = " "
Indexes(r) == 1 .. Len(rooms_db[r].slots)

\* What C1 says of one state: in a room whose window has closed, equality
\* included, every reserve and every commit returns TIME_OVER (CLOSED) and
\* leaves every slot as it is.
C1_Rejects ==
  \A r \in Rooms : Closed(r) =>
    /\ \A u \in Users :
         /\ Reserve(r, u).status = "TIME_OVER"
         /\ Reserve(r, u).rooms_db = rooms_db
    /\ \A u \in Users, m \in Messages, d \in ImageData, io \in IoOutcomes :
         /\ Join(r, u, m, d, io).status = "TIME_OVER"
         /\ Join(r, u, m, d, io).rooms_db = rooms_db

\* C1: once now >= closingThreshold (equality included) every reserve and
\* commit is rejected with CLOSED without touching a slot, and no step
\* changes a slot of the closed room ever again.  (The responses depend on
\* rooms_db and now alone, so they are looked at in every state a step that
\* changes one of the two leads to; no room exists initially.)
C1_ClosedRoomFrozen ==
  [][/\ \A r \in Rooms : Closed(r) =>
          /\ r \in DOMAIN rooms_db'
          /\ rooms_db'[r].slots = rooms_db[r].slots
     /\ <<rooms_db, now>>' # <<rooms_db, now>> => C1_Rejects']_vars

\* C1 witness: the clock stands exactly at the threshold of a room that was
\* open before, in which one slot was reserved and one committed.
C1_Witness ==
  \E r \in Rooms :
    /\ now = Minutes(rooms_db[r].open_time)
    /\ now > ClockStart
    /\ \E i, j \in Indexes(r) :
         /\ rooms_db[r].slots[i].reserved_by # None
         /\ ~rooms_db[r].slots[i].is_filled
         /\ rooms_db[r].slots[j].user # None

\* C2 (as claimed): is_open is false for a room whose threshold has passed,
\* and is_open is true exactly when reserve and commit are not rejected
\* with CLOSED.
C2_IsOpenMeansAllowed ==
  \A r \in Rooms :
    LET st == check_status(rooms_db, r, now) IN
    /\ Closed(r) => st.is_open = FALSE
    /\ \A u \in Users : st.is_open <=> Reserve(r, u).status # "TIME_OVER"
    /\ \A u \in Users, m \in Messages, d \in ImageData, io \in IoOutcomes :
         st.is_open <=> Join(r, u, m, d, io).status # "TIME_OVER"

\* C2 (amended): is_open tells that open_time has been reached: it is true
\* for a room whose threshold has passed or is the current minute, and it is
\* true exactly when reserve and commit are rejected with CLOSED.
C2_IsOpenMeansClosed ==
  \A r \in Rooms :
    LET st == check_status(rooms_db, r, now) IN
    /\ ~st.error
    /\ Closed(r) <=> st.is_open = TRUE
    /\ \A u \in Users : st.is_open <=> Reserve(r, u).status = "TIME_OVER"
    /\ \A u \in Users, m \in Messages, d \in ImageData, io \in IoOutcomes :
         st.is_open <=> Join(r, u, m, d, io).status = "TIME_OVER"

\* C2 witness: a room is created with its threshold one minute in the past
\* and getStatus reports is_open for it while its slots are untouched.
C2_Witness ==
  \E r \in Rooms :
    /\ Minutes(rooms_db[r].open_time) < now
    /\ rooms_db[r].slots = NewSlots(<<"a", " ", "B">>)
    /\ check_status(rooms_db, r, now).is_open = TRUE

\* C3: while the window is open, a user whose last reserve returned SUCCESS
\* and who has not committed since gets SUCCESS with the same char from
\* every further reserve, whatever other users did in between, and that
\* reserve changes no slot.
C3_ReserveIdempotent ==
  \A r \in Rooms : \A u \in Users :
    (granted[r][u] # None /\ ~Closed(r)) =>
      /\ Reserve(r, u).status = "SUCCESS"
      /\ Reserve(r, u).assigned_char = granted[r][u]
      /\ Reserve(r, u).rooms_db = rooms_db

\* C3 witness: a user was granted a char, and after that another user
\* reserved and a third committed.
C3_Witness ==
  \E r \in Rooms : \E u, v \in Users :
    /\ ~Closed(r)
    /\ u # v
    /\ granted[r][u] = "B"
    /\ granted[r][v] = None
    /\ \E i \in Indexes(r) : rooms_db[r].slots[i].user = v

\* C4 (as claimed): repeating a commit that returned SUCCESS, with the
\* same user, message and photo, leaves the slots as the first commit left
\* them.
C4_CommitIdempotent ==
  \A r \in Rooms : \A u \in Users, m \in Messages, d \in ImageData,
                      io \in IoOutcomes :
    LET first == Join(r, u, m, d, io) IN
    first.status = "SUCCESS" =>
      join_room(first.rooms_db, first.files, r, u, m, d, io, now).rooms_db
        = first.rooms_db

\* C5: in an open room, a reserve by a user who holds no uncommitted slot
\* returns FULL and changes nothing when no slot is free, and otherwise
\* returns SUCCESS with the char of the free slot of lowest position, which
\* alone changes: it becomes held by that user.
C5_LowestFreeSlot ==
  \A r \in Rooms : \A u \in Users :
    LET slots == rooms_db[r].slots
        free == {i \in Indexes(r) : Free(slots[i])}
        res == Reserve(r, u)
    IN (~Closed(r) /\ \A i \in Indexes(r) : ~HeldBy(slots[i], u)) =>
         IF free = {}
         THEN res.status = "FULL" /\ res.rooms_db = rooms_db
         ELSE LET p == CHOOSE i \in free : \A j \in free : i <= j IN
              /\ res.status = "SUCCESS"
              /\ res.assigned_char = slots[p].char
              /\ res.rooms_db =
                   [rooms_db EXCEPT ![r].slots[p].reserved_by = u]

\* C5 witness: the two non-blank slots of "A B" are held by two users, in
\* position order, and a third user's reserve returns FULL.
C5_Witness ==
  \E r \in Rooms : \E u, v, w \in Users :
    /\ Cardinality({u, v, w}) = 3
    /\ ~Closed(r)
    /\ Len(rooms_db[r].slots) = 3
    /\ HeldBy(rooms_db[r].slots[1], u) /\ granted[r][u] = "A"
    /\ HeldBy(rooms_db[r].slots[3], v) /\ granted[r][v] = "B"
    /\ Reserve(r, w).status = "FULL"

\* The positions a request committed: unfilled before, filled after.
Committed(r, before, after) ==
  {before[r].slots[i].position : i \in
     {j \in Indexes(r) : ~before[r].slots[j].is_filled
                         /\ after[r].slots[j].is_filled}}

\* C6: in an open room a commit succeeds exactly when a reserve by the
\* same user would, returns FULL exactly when the reserve would, and
\* commits the position that reserve followed by commit commits.
C6_CommitLikeReserveThenCommit ==
  \A r \in Rooms : \A u \in Users, m \in Messages, d \in ImageData,
                      io \in IoOutcomes :
    LET direct == Join(r, u, m, d, io)
        res == Reserve(r, u)
        both == join_room(res.rooms_db, files, r, u, m, d, io, now)
    IN ~Closed(r) =>
         /\ direct.status = "SUCCESS" <=> res.status = "SUCCESS"
         /\ direct.status = "FULL" <=> res.status = "FULL"
         /\ both.status = direct.status
         /\ Committed(r, rooms_db, direct.rooms_db)
              = Committed(r, rooms_db, both.rooms_db)
         /\ direct.status = "SUCCESS" =>
              Cardinality(Committed(r, rooms_db, direct.rooms_db)) = 1

\* C6 witness: one slot was committed without a reservation and another is
\* held, so that a further user's commit has to pick among what is left.
C6_Witness ==
  \E r \in Rooms : \E i, j \in Indexes(r) :
    /\ ~Closed(r)
    /\ rooms_db[r].slots[i].user # None
    /\ rooms_db[r].slots[i].reserved_by = None
    /\ rooms_db[r].slots[j].user # None
    /\ rooms_db[r].slots[j].reserved_by # None

\* C7 (as claimed): in no step is a slot's reserved_by, once set,
\* overwritten by another user, and in no step is a slot committed to a
\* user while it is held by or already committed to another user.
C7_NoDoubleClaim ==
  [][\A r \in Rooms : \A i \in Indexes(r) :
       LET old == rooms_db[r].slots[i]
           new == rooms_db'[r].slots[i]
       IN /\ old.reserved_by # None => new.reserved_by = old.reserved_by
          /\ new.user # old.user =>
               /\ old.user = None
               /\ old.reserved_by \in {None, new.user}]_vars

\* The quantity of C8 for one room.
FilledPlusBlank(room) ==
  Cardinality({i \in 1 .. Len(room.slots) : room.slots[i].is_filled})
    + Cardinality({i \in 1 .. Len(room.slots) : Blank(room.slots[i])})

\* C8: no step makes a room disappear or lowers its
\* count(filled=true) + count(char is blank).
C8_FilledNeverDecreases ==
  [][\A r \in Rooms :
       /\ r \in DOMAIN rooms_db'
       /\ FilledPlusBlank(rooms_db'[r]) >= FilledPlusBlank(rooms_db[r])]_vars

\* C8 witness: a room with a blank slot in which both other slots were
\* committed and whose card was composed after a commit.
C8_Witness ==
  \E r \in Rooms :
    /\ Len(rooms_db[r].slots) = 3
    /\ FilledPlusBlank(rooms_db[r]) = 4
    /\ r \in DOMAIN cards
    /\ cards[r].pasted # {}

\* Inputs with which persisting the photo fails.
Undecodable == {<<>>, <<"hdr", ",", "x">>}
PersistFails(d, io) == d \in Undecodable \/ io # "ok"

\* A commit by u finds an eligible slot in room r.
Eligible(r, u) ==
  /\ ~Closed(r)
  /\ \E i \in Indexes(r) :
       HeldBy(rooms_db[r].slots[i], u) \/ Free(rooms_db[r].slots[i])

\* The commit res of user u with message m committed exactly position p.
CommittedAt(r, res, u, m, p) ==
  /\ res.status = "SUCCESS"
  /\ Committed(r, rooms_db, res.rooms_db) = {p}
  /\ \A i \in Indexes(r) :
       IF rooms_db[r].slots[i].position = p
       THEN /\ res.rooms_db[r].slots[i].is_filled
            /\ res.rooms_db[r].slots[i].user = u
            /\ res.rooms_db[r].slots[i].message = m
       ELSE res.rooms_db[r].slots[i] = rooms_db[r].slots[i]

\* C9 (as claimed): when persisting fails in a commit that found a slot,
\* the commit returns SUCCESS, the slot is committed, and no photo is
\* retrievable for the room and position.
C9_FailedPhotoNotRetrievable ==
  \A r \in Rooms : \A u \in Users, m \in Messages, d \in ImageData,
                      io \in IoOutcomes :
    (Eligible(r, u) /\ PersistFails(d, io)) =>
      \E p \in Positions :
        /\ CommittedAt(r, Join(r, u, m, d, io), u, m, p)
        /\ get_image(Join(r, u, m, d, io).files, r, p) = "error"

\* C10: a blank slot is filled, has no reserved_by, user or message, and no
\* reserve or commit returns its char or changes it.
C10_BlankSlotsInert ==
  \A r \in Rooms : \A i \in Indexes(r) :
    LET slot == rooms_db[r].slots[i] IN
    Blank(slot) =>
      /\ slot.is_filled
      /\ slot.reserved_by = None
      /\ slot.user = None
      /\ slot.message = None
      /\ \A u \in Users :
           /\ Reserve(r, u).assigned_char # " "
           /\ Reserve(r, u).rooms_db[r].slots[i] = slot
      /\ \A u \in Users, m \in Messages, d \in ImageData, io \in IoOutcomes :
           Join(r, u, m, d, io).rooms_db[r].slots[i] = slot

\* C10 witness: in the room whose first slot is blank the other slot was
\* committed by a user.
C10_Witness ==
  \E r \in Rooms :
    /\ Blank(rooms_db[r].slots[1])
    /\ rooms_db[r].slots[2].is_filled
    /\ rooms_db[r].slots[2].user \in Users

\* The three states of a non-blank slot.
IsFree(slot) ==
  ~slot.is_filled /\ slot.reserved_by = None /\ slot.user = None
IsHeld(slot) ==
  ~slot.is_filled /\ slot.reserved_by # None /\ slot.user = None
IsCommitted(slot) == slot.is_filled /\ slot.user # None

\* C11: every non-blank slot is in exactly one of the states free, held and
\* committed; a filled one has a user, an unfilled one has neither a user
\* nor a message.
C11_ThreeStates ==
  \A r \in Rooms : \A i \in Indexes(r) :
    LET slot == rooms_db[r].slots[i] IN
    ~Blank(slot) =>
      /\ Cardinality({k \in {"free", "held", "committed"} :
           \/ k = "free" /\ IsFree(slot)
           \/ k = "held" /\ IsHeld(slot)
           \/ k = "committed" /\ IsCommitted(slot)}) = 1
      /\ slot.is_filled => slot.user # None
      /\ ~slot.is_filled => slot.user = None /\ slot.message = None

\* C11 witness: of the two non-blank slots of "A B" the first was reserved
\* and then committed with a message and the second is held.
C11_Witness ==
  \E r \in Rooms :
    /\ Len(rooms_db[r].slots) = 3
    /\ IsCommitted(rooms_db[r].slots[1])
    /\ rooms_db[r].slots[1].reserved_by = rooms_db[r].slots[1].user
    /\ rooms_db[r].slots[1].message = "hi"
    /\ IsHeld(rooms_db[r].slots[3])

\* C12: in no step does a held slot become free or change its holder, and
\* in no step does a committed slot stop being committed or change its user
\* or message.
C12_OneDirectional ==
  [][\A r \in Rooms : \A i \in Indexes(r) :
       LET old == rooms_db[r].slots[i]
           new == rooms_db'[r].slots[i]
       IN /\ IsHeld(old) =>
               /\ ~IsFree(new)
               /\ IsHeld(new) \/ IsCommitted(new)
               /\ new.reserved_by = old.reserved_by
          /\ IsCommitted(old) =>
               /\ IsCommitted(new)
               /\ new.user = old.user
               /\ new.message = old.message]_vars

\* C12 witness: ann still holds A after bob committed B without a
\* reservation and the card was composed.
C12_Witness ==
  \E r \in Rooms :
    /\ Len(rooms_db[r].slots) = 3
    /\ IsHeld(rooms_db[r].slots[1])
    /\ rooms_db[r].slots[1].reserved_by = "ann"
    /\ IsCommitted(rooms_db[r].slots[3])
    /\ rooms_db[r].slots[3].user = "bob"
    /\ rooms_db[r].slots[3].reserved_by = None
    /\ r \in DOMAIN cards

\* The room has one slot per character of text.upper(), the slot of the
\* i-th character (counted from 0) at position i.
ShapedLike(room, text) ==
  LET chars == str_upper(text) IN
  /\ Len(room.slots) = Len(chars)
  /\ \A i \in 1 .. Len(chars) :
       /\ room.slots[i].position = i - 1
       /\ room.slots[i].char = chars[i]

\* C13: a room that a step creates has one slot per character of the
\* uppercased text, slot i at position i, and no step changes the number of
\* slots, a slot's position or char, the columns or the open_time of a room
\* that exists.
C13_ShapeFixed ==
  [][/\ \A r \in DOMAIN rooms_db' \ Rooms :
          \E text \in TwoRoomTexts : ShapedLike(rooms_db'[r], text)
     /\ \A r \in Rooms :
          /\ r \in DOMAIN rooms_db'
          /\ Len(rooms_db'[r].slots) = Len(rooms_db[r].slots)
          /\ \A i \in Indexes(r) :
               /\ rooms_db'[r].slots[i].position = rooms_db[r].slots[i].position
               /\ rooms_db'[r].slots[i].char = rooms_db[r].slots[i].char
          /\ rooms_db'[r].columns = rooms_db[r].columns
          /\ rooms_db'[r].open_time = rooms_db[r].open_time]_vars

\* C13 witness: the room made from the one-character text whose upper case
\* is "SS" has two slots, one of them committed, and its card was composed.
C13_Witness ==
  \E r \in Rooms :
    /\ ShapedLike(rooms_db[r], <<"ß">>)
    /\ Len(rooms_db[r].slots) = 2
    /\ rooms_db[r].slots[2].position = 1
    /\ rooms_db[r].slots[1].is_filled
    /\ r \in DOMAIN cards

\* ceil(n / c) for c > 0: the least k with k * c >= n.
Ceil(n, c) == CHOOSE k \in 0 .. n : k * c >= n /\ \A j \in 0 .. n : j * c >= n => k <= j

\* C14: the card of a room with positive columns is
\* columns * 120 + 2 * margin wide and ceil(totalSlots / columns) * 120 +
\* 2 * margin high.
C14_CanvasSize ==
  \A r \in DOMAIN cards :
    LET room == rooms_db[r]
        rows == Ceil(Len(room.slots), room.columns)
    IN room.columns > 0 =>
         /\ cards[r].width = room.columns * 120 + 2 * margin
         /\ cards[r].height = rows * 120 + 2 * margin

\* C14 witness: the card of a room of 14 slots in 5 columns has 3 rows.
C14_Witness ==
  \E r \in DOMAIN cards :
    /\ Len(rooms_db[r].slots) = 14
    /\ rooms_db[r].columns = 5
    /\ cards[r].width = 5 * 120 + 2 * margin
    /\ cards[r].height = 3 * 120 + 2 * margin

\* The cells at two corners of side slot_size share no pixel.
Disjoint(a, b) ==
  \/ a.x + slot_size <= b.x
  \/ b.x + slot_size <= a.x
  \/ a.y + slot_size <= b.y
  \/ b.y + slot_size <= a.y

\* The canvas of one room of the state, as make_card would compose it now.
CanvasNow(r) == Canvas(files, r, rooms_db[r])

\* C20: for every position p of a room with positive columns the cell at
\* x = margin + (p mod columns) * cellSize, y = margin + (p div columns) *
\* cellSize lies inside the canvas within the margins, the cells of two
\* positions do not overlap, and make_card pastes each photo at that corner.
C20_CellsInsideAndApart ==
  \A r \in Rooms :
    LET room == rooms_db[r]
        positions == {room.slots[i].position : i \in Indexes(r)}
    IN room.columns > 0 =>
         /\ \A p \in positions :
              /\ Cell(room, p).x = margin + (p % room.columns) * slot_size
              /\ Cell(room, p).y = margin + (p \div room.columns) * slot_size
              /\ Cell(room, p).x >= margin
              /\ Cell(room, p).y >= margin
              /\ Cell(room, p).x + slot_size <= CanvasNow(r).width - margin
              /\ Cell(room, p).y + slot_size <= CanvasNow(r).height - margin
         /\ \A p, q \in positions :
              p # q => Disjoint(Cell(room, p), Cell(room, q))
         /\ \A p \in CanvasNow(r).pasted : CanvasNow(r).at[p] = Cell(room, p)

\* C20 witness: in a room of 14 slots in 5 columns the photo of the last
\* slot, alone in the third row, was pasted on the card.
C20_Witness ==
  \E r \in DOMAIN cards :
    /\ Len(rooms_db[r].slots) = 14
    /\ rooms_db[r].columns = 5
    /\ 13 \in cards[r].pasted
    /\ cards[r].at[13] = [x |-> margin + 3 * slot_size, y |-> margin + 2 * slot_size]

\* C15 (as claimed): make_card completes and writes the card of the room,
\* and the photos on it are those of the slots that are non-blank and
\* committed and for whose position a photo is retrievable.
C15_RendersCommittedWithPhoto ==
  \A r \in Rooms :
    LET res == make_card(rooms_db, files, cards, r)
        slots == rooms_db[r].slots
    IN /\ res.status = "OK"
       /\ r \in DOMAIN res.cards
       /\ res.cards[r].pasted =
            {slots[i].position : i \in
               {j \in Indexes(r) :
                  /\ ~Blank(slots[j])
                  /\ IsCommitted(slots[j])
                  /\ get_image(files, r, slots[j].position) = "FILE"}}

\* C16: a step that writes a card changes no slot and no photo, writes the
\* one card of a room that exists and leaves the other cards alone; and over
\* a step in which no slot of a room is committed the card make_card
\* composes for the room stays the same.
C16_ComposeRepeatSafe ==
  [][/\ cards' # cards =>
          /\ rooms_db' = rooms_db
          /\ files' = files
          /\ \E r \in Rooms :
               /\ DOMAIN cards' = DOMAIN cards \cup {r}
               /\ \A k \in DOMAIN cards \ {r} : cards'[k] = cards[k]
               /\ cards'[r] = CanvasNow(r)
               /\ make_card(rooms_db', files', cards', r).cards = cards'
     /\ \A r \in Rooms :
          (\A i \in Indexes(r) :
             rooms_db'[r].slots[i].is_filled = rooms_db[r].slots[i].is_filled)
          => Canvas(files', r, rooms_db'[r]) = CanvasNow(r)]_vars

\* C16 witness: both rooms have a card; the card of r1 was composed before
\* the photo of its committed slot came in and again after it, and the card
\* of r2 is still the one without a photo although r2 has a photo now.
C16_Witness ==
  /\ DOMAIN cards = {"r1", "r2"}
  /\ cards["r1"].pasted # {}
  /\ cards["r2"].pasted = {}
  /\ CanvasNow("r2").pasted # {}

\* C17: with requests served one at a time, no user holds more than one
\* uncommitted slot of a room.
C17_OneHoldPerUser ==
  \A r \in Rooms : \A u \in Users :
    Cardinality({i \in Indexes(r) : HeldBy(rooms_db[r].slots[i], u)}) <= 1

\* C17 witness: ann committed the slot she had reserved and holds another
\* one since.
C17_Witness ==
  \E r \in Rooms : \E i, j \in Indexes(r) :
    /\ i # j
    /\ IsCommitted(rooms_db[r].slots[i])
    /\ rooms_db[r].slots[i].user = "ann"
    /\ rooms_db[r].slots[i].reserved_by = "ann"
    /\ HeldBy(rooms_db[r].slots[j], "ann")

\* C18: with requests served one at a time, a committed slot that was held
\* was committed by its holder, and in an open room a commit by a user who
\* holds nothing returns FULL and changes nothing when every unfilled slot
\* is held by another user.
C18_HeldCommittedByHolder ==
  \A r \in Rooms :
    LET slots == rooms_db[r].slots IN
    /\ \A i \in Indexes(r) :
         (slots[i].is_filled /\ slots[i].reserved_by # None)
           => slots[i].user = slots[i].reserved_by
    /\ \A u \in Users :
         (/\ ~Closed(r)
          /\ \A i \in Indexes(r) :
               ~slots[i].is_filled => slots[i].reserved_by \notin {None, u})
           => \A m \in Messages, d \in ImageData, io \in IoOutcomes :
                Join(r, u, m, d, io) =
                  [status |-> "FULL", rooms_db |-> rooms_db, files |-> files]

\* C18 witness: bob holds the only unfilled slot, the other one was held and
\* committed by ann, and a commit by a third user returns FULL.
C18_Witness ==
  \E r \in Rooms : \E i, j \in Indexes(r) :
    /\ ~Closed(r)
    /\ HeldBy(rooms_db[r].slots[i], "bob")
    /\ rooms_db[r].slots[j].is_filled
    /\ rooms_db[r].slots[j].reserved_by = "ann"
    /\ \A k \in Indexes(r) : k # i => rooms_db[r].slots[k].is_filled
    /\ Join(r, "", "hi", <<"hdr", ",", "png">>, "ok").status = "FULL"

\* The rooms other than r are the same in db as in the state, and r exists
\* in db with its columns, open_time and number of slots.
OthersSame(db, r) ==
  /\ DOMAIN db = DOMAIN rooms_db
  /\ \A q \in DOMAIN db \ {r} : db[q] = rooms_db[q]
  /\ db[r].columns = rooms_db[r].columns
  /\ db[r].open_time = rooms_db[r].open_time
  /\ Len(db[r].slots) = Len(rooms_db[r].slots)

\* C19: a commit that returns SUCCESS turns exactly one unfilled slot of its
\* room into a filled one with the caller as user and the given message and
\* changes no other slot and no other room; a reserve that returns SUCCESS
\* changes at most one slot, and of it only reserved_by; a reserve or commit
\* that returns FULL or the unknown-room error changes nothing.
C19_FrameEffects ==
  \A r \in TwoRoomRequestIds : \A u \in Users :
    /\ LET res == reserve_slot(rooms_db, r, u, now) IN
       /\ res.status \in {"FULL", "ERROR"} => res.rooms_db = rooms_db
       /\ r \notin Rooms => res.status = "ERROR"
       /\ res.status = "SUCCESS" =>
            /\ OthersSame(res.rooms_db, r)
            /\ Cardinality({i \in Indexes(r) :
                 res.rooms_db[r].slots[i] # rooms_db[r].slots[i]}) <= 1
            /\ \A i \in Indexes(r) :
                 rooms_db[r].slots[i] =
                   [res.rooms_db[r].slots[i] EXCEPT
                      !.reserved_by = rooms_db[r].slots[i].reserved_by]
    /\ \A m \in Messages, d \in ImageData, io \in IoOutcomes :
         LET res == join_room(rooms_db, files, r, u, m, d, io, now) IN
         /\ res.status \in {"FULL", "ERROR"} =>
              res.rooms_db = rooms_db /\ res.files = files
         /\ r \notin Rooms => res.status = "ERROR"
         /\ res.status = "SUCCESS" =>
              /\ OthersSame(res.rooms_db, r)
              /\ \E i \in Indexes(r) :
                   /\ ~rooms_db[r].slots[i].is_filled
                   /\ res.rooms_db[r].slots[i].is_filled
                   /\ res.rooms_db[r].slots[i].user = u
                   /\ res.rooms_db[r].slots[i].message = m
                   /\ \A j \in Indexes(r) \ {i} :
                        res.rooms_db[r].slots[j] = rooms_db[r].slots[j]

\* C19 witness: two rooms; ann committed a slot of r1, and in r2 the only
\* non-blank slot is held by bob, so that ann's commit there returns FULL.
C19_Witness ==
  /\ Rooms = {"r1", "r2"}
  /\ \E i \in Indexes("r1") :
       IsCommitted(rooms_db["r1"].slots[i]) /\ rooms_db["r1"].slots[i].user = "ann"
  /\ \E i \in Indexes("r2") : HeldBy(rooms_db["r2"].slots[i], "bob")
  /\ join_room(rooms_db, files, "r2", "ann", "hi", <<>>, "ok", now).status = "FULL"
  /\ reserve_slot(rooms_db, "zz", "ann", now).status = "ERROR"

=============================================================================
